---------------------------- MODULE Spec2Model ----------------------------
(***************************************************************************)
(* cmake-profile-stat.py: reconstruction of a call tree with cumulative    *)
(* timings from a cmake --trace log, and the report made from it.          *)
(*                                                                         *)
(* Representation.                                                         *)
(*  - A text (an input line, a field, a code text) is a sequence of        *)
(*    one-character strings.                                               *)
(*  - Python's None is the empty sequence <<>>; a present value x is <<x>>.*)
(*  - A float is a record [is, high, ticks]. is = "number" is a value of   *)
(*    high * 2^34 s plus an integer number of ticks of 10E-7 s (the        *)
(*    trailing duration of line 288); "inf" (ticks is the sign) and "nan"  *)
(*    are the special values of float(); "other" is any finite float that  *)
(*    the record does not hold.                                            *)
(*  - The floats held are those on which the arithmetic of the code is     *)
(*    exact: below 2^31 ticks the whole multiples of 2^-6 s (Grain ticks), *)
(*    and from 2^34 s up to 2^31 ticks more the whole seconds, where the   *)
(*    neighbouring floats are more than 2 * 10E-7 s apart, so that adding  *)
(*    10E-7 s gives the same float again. float() rounds a decimal text to *)
(*    the nearest float (ParseFloat decides this on the digits): that is   *)
(*    a float held, inf, or "other".                                       *)
(*  - The float operations (PlusTrailing, FloatDiff, FloatSum and the      *)
(*    comparison BelowThreshold) are defined on the floats held and on     *)
(*    the one trailing duration added to them, and on nothing else: on     *)
(*    other arguments the code rounds and these operators have no value.   *)
(*    No input stream here leaves that domain, and none mixes timestamps   *)
(*    of the two ranges.                                                   *)
(*  - The interpreter is a 64 bit Python 2: sys.maxint is 2^63 - 1 and     *)
(*    int() accepts whitespace after a sign. The database module behind    *)
(*    shelve differs between installations and is the variable dbm.        *)
(*  - _CmakeTrace objects live in the arena `nodes`; a reference is an     *)
(*    index, 0 is None and Root is the sentinel of _collect_stats.         *)
(*  - assert statements are enabled (the interpreter runs without -O).     *)
(***************************************************************************)
EXTENDS Integers, Sequences, FiniteSets, TLC

None == <<>>
Some(x) == <<x>>
IsNone(o) == o = <<>>
Val(o) == o[1]

(***************************************************************************)
(* Text helpers                                                            *)
(***************************************************************************)
Digits == <<"0", "1", "2", "3", "4", "5", "6", "7", "8", "9">>

\* the vertical tab, '\x0b': the string holds the character itself, for
\* which there is no escape
VerticalTab == ""

\* the whitespace of str.rstrip(), of int() and float() and of \s: blank, tab,
\* line feed, carriage return, form feed, vertical tab
IsSpace(c) == c \in {" ", "\t", "\n", "\r", "\f", VerticalTab}

IsDigit(c) == \E i \in 1..Len(Digits) : Digits[i] = c

DigitVal(c) == (CHOOSE i \in 1..Len(Digits) : Digits[i] = c) - 1

\* str.rstrip(): drop trailing whitespace
RECURSIVE RStrip(_)
RStrip(s) ==
    IF Len(s) > 0 /\ IsSpace(s[Len(s)]) THEN RStrip(SubSeq(s, 1, Len(s) - 1)) ELSE s

\* leading whitespace dropped
RECURSIVE LStrip(_)
LStrip(s) ==
    IF Len(s) > 0 /\ IsSpace(s[1]) THEN LStrip(Tail(s)) ELSE s

Strip(s) == LStrip(RStrip(s))

\* index of the first occurrence of c in s at or after position i, 0 when none
FindChar(s, c, i) ==
    IF \E k \in i..Len(s) : s[k] = c
    THEN CHOOSE k \in i..Len(s) : s[k] = c /\ \A j \in i..(k - 1) : s[j] # c
    ELSE 0

\* first position at or after i that holds no whitespace (Len(s) + 1 when none):
\* where a greedy \s* stops
SkipSpace(s, i) ==
    IF \E k \in i..Len(s) : ~IsSpace(s[k])
    THEN CHOOSE k \in i..Len(s) : ~IsSpace(s[k]) /\ \A j \in i..(k - 1) : IsSpace(s[j])
    ELSE Len(s) + 1

RECURSIVE DigitsValue(_)
DigitsValue(s) ==
    IF Len(s) = 0 THEN 0
    ELSE 10 * DigitsValue(SubSeq(s, 1, Len(s) - 1)) + DigitVal(s[Len(s)])

AllDigits(s) == \A k \in 1..Len(s) : IsDigit(s[k])

HasSign(s) == Len(s) > 0 /\ s[1] \in {"-", "+"}

Unsigned(s) == IF HasSign(s) THEN Tail(s) ELSE s

Signed(s, v) == IF HasSign(s) /\ s[1] = "-" THEN 0 - v ELSE v

\* int(text): surrounding whitespace is dropped, a sign may be followed by
\* whitespace, then come decimal digits; anything else raises ValueError
\* (ok = FALSE)
ParseInt(text) ==
    LET s == Strip(text)
        u == IF HasSign(s) THEN LStrip(Tail(s)) ELSE s
    IN  IF Len(u) > 0 /\ AllDigits(u)
        THEN [ok |-> TRUE, val |-> Signed(s, DigitsValue(u))]
        ELSE [ok |-> FALSE, val |-> 0]

\* number of fractional decimal digits of a tick (a tick is 10E-7 s)
TickDigits == 6

RECURSIVE Pow10(_)
Pow10(n) == IF n = 0 THEN 1 ELSE 10 * Pow10(n - 1)

\* the float high * 2^34 s + ticks * 10E-7 s
Float(high, ticks) == [is |-> "number", high |-> high, ticks |-> ticks]

\* the floats inf (ticks = 1), -inf (ticks = -1) and nan, and "other": any
\* float that float() gives and that is none of the Exact ones. No
\* arithmetic is defined on them.
SpecialFloat(is, ticks) == [is |-> is, high |-> 0, ticks |-> ticks]

\* the ticks of 2^-6 s: a number of ticks is a whole multiple of 2^-6 s, and
\* so a float exactly, when it is a multiple of 5^6
Grain == 15625

\* 10E-7 seconds, the duration given to the last event (line 288), in ticks.
\* Added to an exact float t below 2^34 s it stands for the float
\* (t + 10E-7) - t, which is 10E-7 s to within the spacing of the floats at t
\* (less than 2^-40 s): a duration above 0 and below every exact one but 0.
TrailingDuration == 1

\* the floats whose arithmetic is held here: below 2^34 s the whole
\* multiples of 2^-6 s, from 2^34 s on the whole seconds
Exact(x) ==
    /\ x.is = "number"
    /\ \/ x.high = 0 /\ x.ticks % Grain = 0
       \/ x.high = 1 /\ x.ticks % Pow10(TickDigits) = 0

OtherFloat == SpecialFloat("other", 0)

\* previous_timeval + 10E-7 (line 288): below 2^34 s the float next to the
\* sum, written as one tick more; from 2^34 s on the sum rounds to
\* previous_timeval itself
PlusTrailing(timeval) ==
    CASE Exact(timeval) ->
            IF timeval.high = 0 THEN Float(0, timeval.ticks + TrailingDuration)
            ELSE timeval

\* the durations held here: sums of differences of exact floats, with or
\* without the one trailing duration of a trace
HeldDuration(d) == d % Grain \in {0, TrailingDuration}

\* x + y for two durations, of which at most one holds the trailing duration
FloatSum(x, y) ==
    CASE /\ HeldDuration(x)
         /\ HeldDuration(y)
         /\ (x % Grain) + (y % Grain) <= TrailingDuration ->
            x + y

\* the words float() reads as special values, in either case of each letter
IsWord(s, lower, upper) ==
    Len(s) = Len(lower) /\ \A k \in 1..Len(s) : s[k] \in {lower[k], upper[k]}

IsInfinity(u) ==
    \/ IsWord(u, <<"i", "n", "f">>, <<"I", "N", "F">>)
    \/ IsWord(u, <<"i", "n", "f", "i", "n", "i", "t", "y">>,
              <<"I", "N", "F", "I", "N", "I", "T", "Y">>)

IsNaN(u) == IsWord(u, <<"n", "a", "n">>, <<"N", "A", "N">>)

\* position of the exponent letter of a decimal literal, 0 when it has none
ExponentAt(u) ==
    IF \E k \in 1..Len(u) : u[k] \in {"e", "E"}
    THEN CHOOSE k \in 1..Len(u) : u[k] \in {"e", "E"} /\ \A j \in 1..(k - 1) : u[j] \notin {"e", "E"}
    ELSE 0

AllZeros(d) == \A j \in 1..Len(d) : d[j] = "0"

\* the digits d without leading zeros
StripZeros(d) ==
    IF AllZeros(d) THEN <<>>
    ELSE SubSeq(d, CHOOSE j \in 1..Len(d) : d[j] # "0" /\ AllZeros(SubSeq(d, 1, j - 1)),
                Len(d))

\* the largest number of ticks held here, 2^31 - 1, in decimal digits
MaxTicks == <<"2", "1", "4", "7", "4", "8", "3", "6", "4", "7">>

\* the number with the digits a is at most that with the digits b, both
\* without leading zeros
RECURSIVE DigitsLeq(_, _)
DigitsLeq(a, b) ==
    IF Len(a) # Len(b) THEN Len(a) < Len(b)
    ELSE IF Len(a) = 0 THEN TRUE
    ELSE IF Head(a) # Head(b) THEN DigitVal(Head(a)) < DigitVal(Head(b))
    ELSE DigitsLeq(Tail(a), Tail(b))

\* n is a power of two: the floats at which the spacing of the floats
\* changes, and the denominators of the thresholds that are floats exactly
RECURSIVE IsPowerOfTwo(_)
IsPowerOfTwo(n) == n = 1 \/ (n > 1 /\ n % 2 = 0 /\ IsPowerOfTwo(n \div 2))

\* the exponent of the largest power of two that is at most n
RECURSIVE Log2(_)
Log2(n) == IF n < 2 THEN 0 ELSE 1 + Log2(n \div 2)

Zeros(n) == [j \in 1..n |-> "0"]

\* digit j of the decimal fraction 0.a, which goes on with zeros
FracDigit(a, j) == IF j <= Len(a) THEN DigitVal(a[j]) ELSE 0

\* the first of the positions lo..hi at which the decimal fractions 0.a and
\* 0.b differ, hi + 1 when there is none
RECURSIVE FirstDifference(_, _, _, _)
FirstDifference(a, b, lo, hi) ==
    LET mid == (lo + hi) \div 2
    IN  IF lo > hi THEN lo
        ELSE IF \A j \in lo..mid : FracDigit(a, j) = FracDigit(b, j)
        THEN FirstDifference(a, b, mid + 1, hi)
        ELSE IF lo = mid THEN lo
        ELSE FirstDifference(a, b, lo, mid)

\* 0.a <= 0.b
FracLeq(a, b) ==
    LET n == IF Len(a) > Len(b) THEN Len(a) ELSE Len(b)
        j == FirstDifference(a, b, 1, n)
    IN  j > n \/ FracDigit(a, j) < FracDigit(b, j)

\* the digits of 1 - 0.a, for a fraction 0.a above 0
OneMinus(a) ==
    LET last == CHOOSE j \in 1..Len(a) :
                    a[j] # "0" /\ \A i \in (j + 1)..Len(a) : a[i] = "0"
    IN  [j \in 1..last |-> Digits[(IF j = last THEN 10 ELSE 9) - DigitVal(a[j]) + 1]]

\* the digits of 0.d / 2
Halve(d) ==
    Append([j \in 1..Len(d) |->
               Digits[((IF j > 1 THEN (DigitVal(d[j - 1]) % 2) * 10 ELSE 0)
                       + DigitVal(d[j])) \div 2 + 1]],
           IF DigitVal(d[Len(d)]) % 2 = 1 THEN "5" ELSE "0")

\* 0.d halved n times
RECURSIVE Halved(_, _)
Halved(d, n) ==
    IF Len(d) = 0 \/ n = 0 THEN d
    ELSE IF n = 1 THEN Halve(d)
    ELSE Halved(Halved(d, n \div 2), n - (n \div 2))

\* the digits of the whole number d times 2
Double(d) ==
    (IF DigitVal(d[1]) >= 5 THEN <<"1">> ELSE <<>>)
    \o [j \in 1..Len(d) |->
           Digits[((2 * DigitVal(d[j])) % 10)
                  + (IF j < Len(d) /\ DigitVal(d[j + 1]) >= 5 THEN 1 ELSE 0) + 1]]

\* the whole number d doubled n times
RECURSIVE Doubled(_, _)
Doubled(d, n) ==
    IF Len(d) = 0 \/ n = 0 THEN d
    ELSE IF n = 1 THEN Double(d)
    ELSE Doubled(Doubled(d, n \div 2), n - (n \div 2))

\* 2^-k as a decimal fraction: its k digits after the point
HalfPower(k) == Halved(<<"5">>, k - 1)

\* 2^-1075, half the smallest float above 0, is 0.24703... * 10^-323:
\* float() rounds a number to 0.0 when it is at most this
UnderflowPower == 1075
UnderflowPoint == 0 - 323

\* 2^1024 - 2^970 = (2^54 - 1) * 2^970, half a step above the largest float,
\* is 0.17976... * 10^309: float() gives inf from this number on
OverflowPower == 970
OverflowPoint == 309
OverflowDigits ==
    <<"1", "8", "0", "1", "4", "3", "9", "8", "5", "0", "9", "4", "8", "1", "9", "8", "3">>

\* the number 0.z * 10^point is at most 2^-1075
Underflow(z, point) ==
    \/ point < UnderflowPoint
    \/ /\ point = UnderflowPoint
       /\ FracLeq(Zeros(0 - point) \o z, HalfPower(UnderflowPower))

\* the number 0.z * 10^point is at least 2^1024 - 2^970
Overflow(z, point) ==
    \/ point > OverflowPoint
    \/ /\ point = OverflowPoint
       /\ FracLeq(Doubled(OverflowDigits, OverflowPower), z)

\* 2^34 in decimal digits
TwoTo34 == <<"1", "7", "1", "7", "9", "8", "6", "9", "1", "8", "4">>

\* the float of the number 0.z * 10^point below 10^4 (z has no leading zero
\* and the number is no 0.0 to float()): a whole multiple of 2^-6 s of at
\* most MaxTicks ticks when the number is within half the spacing of the
\* floats of it, which is 2^-59 s times the largest power of two in the
\* multiple (below a power of two the floats are half as far apart; a number
\* halfway goes to the multiple, whose last bit is 0); another float
\* otherwise. The number is whole ticks and rest / 10^Len(rest) of a tick.
SmallFloat(z, point) ==
    LET ip == IF point <= 0 THEN <<>>
              ELSE IF point <= Len(z) THEN SubSeq(z, 1, point)
              ELSE z \o Zeros(point - Len(z))
        fp == IF point >= 0 THEN SubSeq(z, point + 1, Len(z)) ELSE Zeros(0 - point) \o z
        whole == StripZeros(ip \o [j \in 1..TickDigits |-> Digits[FracDigit(fp, j) + 1]])
        rest == SubSeq(fp, TickDigits + 1, Len(fp))
        ticks == DigitsValue(whole)
        below == ticks \div Grain
        above == below + 1
    IN  IF ~DigitsLeq(whole, MaxTicks) THEN OtherFloat
        ELSE IF /\ ticks > 0
                /\ ticks % Grain = 0
                /\ \/ AllZeros(rest)
                   \/ FracLeq(Zeros(TickDigits) \o rest, HalfPower(59 - Log2(below)))
        THEN Float(0, ticks)
        ELSE IF /\ ticks % Grain = Grain - 1
                /\ ~AllZeros(rest)
                /\ FracLeq(Zeros(TickDigits) \o OneMinus(rest),
                           HalfPower(59 - Log2(above)
                                     + (IF IsPowerOfTwo(above) THEN 1 ELSE 0)))
        THEN Float(0, above * Grain)
        ELSE OtherFloat

\* the float of the number 0.z * 10^11: a whole number of seconds from 2^34
\* to 2^34 + MaxTicks ticks when the number is within 2^-19 s of it (2^-20 s
\* below 2^34), half the spacing of the floats there; another float otherwise
LargeFloat(z) ==
    LET ip == IF Len(z) >= Len(TwoTo34) THEN SubSeq(z, 1, Len(TwoTo34))
              ELSE z \o Zeros(Len(TwoTo34) - Len(z))
        fp == SubSeq(z, Len(TwoTo34) + 1, Len(z))
        low == Len(TwoTo34) - 4
        seconds == DigitsValue(SubSeq(ip, low, Len(ip)))
                   - DigitsValue(SubSeq(TwoTo34, low, Len(TwoTo34)))
        most == DigitsValue(MaxTicks) \div Pow10(TickDigits)
    IN  IF SubSeq(ip, 1, low - 1) # SubSeq(TwoTo34, 1, low - 1) THEN OtherFloat
        ELSE IF seconds \in 0..most /\ (AllZeros(fp) \/ FracLeq(fp, HalfPower(19)))
        THEN Float(1, seconds * Pow10(TickDigits))
        ELSE IF /\ seconds + 1 \in 0..most
                /\ ~AllZeros(fp)
                /\ FracLeq(OneMinus(fp), HalfPower(IF seconds + 1 = 0 THEN 20 ELSE 19))
        THEN Float(1, (seconds + 1) * Pow10(TickDigits))
        ELSE OtherFloat

\* the float of the decimal number with the digits d, of which `fraction` are
\* after the point, times 10 to the exponent with the (signed) digits et, and
\* negative or not: the number is 0.z * 10^point. An exponent of ten digits
\* or more decides by its sign (a text has fewer than 10^8 characters).
DecimalFloat(negative, d, et, fraction) ==
    LET z == StripZeros(d)
        e == StripZeros(Unsigned(et))
        point == IF Len(e) >= Len(MaxTicks) THEN Signed(et, Pow10(Len(MaxTicks) - 1))
                 ELSE Len(z) + Signed(et, DigitsValue(e)) - fraction
        v == IF point <= 4 THEN SmallFloat(z, point)
             ELSE IF point = Len(TwoTo34) /\ ~negative THEN LargeFloat(z)
             ELSE OtherFloat
    IN  IF Len(z) = 0 THEN Float(0, 0)
        ELSE IF Underflow(z, point) THEN Float(0, 0)
        ELSE IF Overflow(z, point)
        THEN SpecialFloat("inf", IF negative THEN 0 - 1 ELSE 1)
        ELSE IF v.is = "number" /\ negative THEN Float(v.high, 0 - v.ticks)
        ELSE v

\* float(text): surrounding whitespace is dropped; then a sign, and either
\* inf, infinity or nan, or digits with an optional decimal point and an
\* optional exponent; anything else raises ValueError (ok = FALSE). The
\* value is the nearest float: held when it is an exact float (Exact), inf,
\* nan, and OtherFloat when it is any other float.
ParseFloat(text) ==
    LET s == Strip(text)
        u == Unsigned(s)
        x == ExponentAt(u)
        m == IF x = 0 THEN u ELSE SubSeq(u, 1, x - 1)
        et == IF x = 0 THEN <<"0">> ELSE SubSeq(u, x + 1, Len(u))
        ed == Unsigned(et)
        p == FindChar(m, ".", 1)
        ip == IF p = 0 THEN m ELSE SubSeq(m, 1, p - 1)
        fp == IF p = 0 THEN <<>> ELSE SubSeq(m, p + 1, Len(m))
    IN  IF IsInfinity(u)
        THEN [ok |-> TRUE, val |-> SpecialFloat("inf", Signed(s, 1))]
        ELSE IF IsNaN(u)
        THEN [ok |-> TRUE, val |-> SpecialFloat("nan", 0)]
        ELSE IF /\ Len(ip) + Len(fp) > 0
                /\ AllDigits(ip)
                /\ AllDigits(fp)
                /\ Len(ed) > 0
                /\ AllDigits(ed)
        THEN [ok |-> TRUE,
              val |-> DecimalFloat(Signed(s, 1) < 0, ip \o fp, et, Len(fp))]
        ELSE [ok |-> FALSE, val |-> Float(0, 0)]

(***************************************************************************)
(* _parse_cmake_log: the trace line pattern                                *)
(***************************************************************************)
NoMatch == [ok |-> FALSE, timestamp |-> <<>>, frame |-> None, file |-> <<>>,
            line |-> <<>>, code |-> <<>>]

\* (?P<file>[^(]*)\((?P<line>[^)]*)\):\s*(?P<code>.*)$ matched from position i;
\* the dot matches no line feed, and $ matches at the end of the text or
\* before a line feed that ends it
MatchRest(s, i) ==
    LET p == FindChar(s, "(", i)
        q == IF p = 0 THEN 0 ELSE FindChar(s, ")", p + 1)
        c == IF q = 0 THEN Len(s) + 1 ELSE SkipSpace(s, q + 2)
        n == FindChar(s, "\n", c)
    IN  IF p # 0 /\ q # 0 /\ q + 1 <= Len(s) /\ s[q + 1] = ":" /\ n \in {0, Len(s)}
        THEN [ok |-> TRUE,
              file |-> SubSeq(s, i, p - 1),
              line |-> SubSeq(s, p + 1, q - 1),
              code |-> SubSeq(s, c, IF n = 0 THEN Len(s) ELSE n - 1)]
        ELSE [ok |-> FALSE, file |-> <<>>, line |-> <<>>, code |-> <<>>]

\* matcher.match(line): ^\((?P<timestamp>[^)]*)\)\s*(\((?P<frame>[^)]*)\)\s*)?
\* followed by MatchRest. The optional frame group is tried first and given
\* up when the rest of the pattern fails with it.
Matcher(s) ==
    LET t == IF Len(s) > 0 /\ s[1] = "(" THEN FindChar(s, ")", 2) ELSE 0
        i == SkipSpace(s, t + 1)
        f == IF t # 0 /\ i <= Len(s) /\ s[i] = "(" THEN FindChar(s, ")", i + 1) ELSE 0
        withFrame == IF f # 0 THEN MatchRest(s, SkipSpace(s, f + 1))
                     ELSE [ok |-> FALSE, file |-> <<>>, line |-> <<>>, code |-> <<>>]
        noFrame == MatchRest(s, i)
    IN  IF t = 0 THEN NoMatch
        ELSE IF withFrame.ok
        THEN [ok |-> TRUE, timestamp |-> SubSeq(s, 2, t - 1),
              frame |-> Some(SubSeq(s, i + 1, f - 1)),
              file |-> withFrame.file, line |-> withFrame.line, code |-> withFrame.code]
        ELSE IF noFrame.ok
        THEN [ok |-> TRUE, timestamp |-> SubSeq(s, 2, t - 1), frame |-> None,
              file |-> noFrame.file, line |-> noFrame.line, code |-> noFrame.code]
        ELSE NoMatch

\* match_parens(code): as many "(" as ")"
RECURSIVE ParenCount(_)
ParenCount(code) ==
    IF Len(code) = 0 THEN 0
    ELSE ParenCount(Tail(code))
         + (IF Head(code) = "(" THEN 1 ELSE IF Head(code) = ")" THEN 0 - 1 ELSE 0)

MatchParensNotNegative(code) == ParenCount(code) >= 0

match_parens(code) == ParenCount(code) = 0

StartsWith(s, w) == Len(s) >= Len(w) /\ SubSeq(s, 1, Len(w)) = w

\* cmake_commands_with_nesting_bugs_re.search(code): ^(else|elseif)\s*\(
\* (no re.IGNORECASE flag: the keywords are matched in lower case only)
NestingBugCommand(code) ==
    \E w \in {<<"e", "l", "s", "e">>, <<"e", "l", "s", "e", "i", "f">>} :
        /\ StartsWith(code, w)
        /\ LET k == SkipSpace(code, Len(w) + 1)
           IN  k <= Len(code) /\ code[k] = "("

(***************************************************************************)
(* _CmakeTraceInfo and _CmakeTrace                                         *)
(***************************************************************************)
CmakeTraceInfo(cmake_file, cmake_line, cmake_code_line) ==
    [cmake_file |-> cmake_file, cmake_line |-> cmake_line,
     cmake_code_line |-> cmake_code_line]

\* the sentinel of _collect_stats: _CmakeTrace(0, None, None)
Root == 1

RootTrace == [duration |-> 0, trace_info |-> None, parent_trace |-> 0,
              subtraces |-> <<>>]

\* the while loop of _CmakeTrace.__init__: duration is added to parent and to
\* every ancestor of it, up to the node without parent
PropagateOnlyParent(ns, parent, duration) ==
    IF parent = 0 THEN ns
    ELSE [ns EXCEPT ![parent].duration = FloatSum(@, duration)]

RECURSIVE Propagate(_, _, _)
Propagate(ns, parent, duration) ==
    IF parent = 0 THEN ns
    ELSE Propagate([ns EXCEPT ![parent].duration = FloatSum(@, duration)],
                   ns[parent].parent_trace, duration)

\* parent_trace.subtraces.append(_CmakeTrace(duration, ti, parent_trace))
AppendTrace(ns, duration, ti, parent) ==
    LET new == Len(ns) + 1
        up == Propagate(ns, parent, duration)
    IN  Append([up EXCEPT ![parent].subtraces = Append(@, new)],
               [duration |-> duration, trace_info |-> Some(ti),
                parent_trace |-> parent, subtraces |-> <<>>])

Last(s) == s[Len(s)]

\* a - b in ticks: for two exact floats of the same range, and for the
\* float PlusTrailing has made of b
FloatDiff(a, b) ==
    CASE Exact(b) /\ (a = PlusTrailing(b) \/ (Exact(a) /\ a.high = b.high)) ->
            a.ticks - b.ticks

\* lines 134-136: the time between two consecutive events, never negative
DurationUnclamped(current_timeval, previous_timeval) ==
    FloatDiff(current_timeval, previous_timeval)

Duration(current_timeval, previous_timeval) ==
    IF FloatDiff(current_timeval, previous_timeval) < 0 THEN 0
    ELSE FloatDiff(current_timeval, previous_timeval)

\* sys.maxint, the distance the search of lines 158-165 starts with: 2^63 - 1,
\* more than the distance of any two line numbers that can be held here. A
\* distance is written <<d>>, sys.maxint is written <<>>.
MaxInt == <<>>

\* distance < insertion_trace[0] (line 163)
Nearer(distance, best) == best = MaxInt \/ distance < best[1]

\* enumerate_frames(trace): the last subtrace of trace (trace itself when it
\* has none), then its ancestors, the sentinel last
RECURSIVE FrameChain(_, _)
FrameChain(ns, t) ==
    IF ns[t].parent_trace = 0 THEN <<t>>
    ELSE <<t>> \o FrameChain(ns, ns[t].parent_trace)

enumerate_frames(ns, trace) ==
    FrameChain(ns, IF Len(ns[trace].subtraces) > 0 THEN Last(ns[trace].subtraces)
                   ELSE trace)

Abs(x) == IF x < 0 THEN 0 - x ELSE x

\* one iteration of the for loop of lines 159-165; insertion_trace is the pair
\* (distance, trace or 0 for None)
InsertionStepLastWins(ns, insertion_trace, trace, ti) ==
    IF /\ ~IsNone(ns[trace].trace_info)
       /\ Val(ns[trace].trace_info).cmake_file = ti.cmake_file
    THEN LET distance == Abs(Val(ns[trace].trace_info).cmake_line - ti.cmake_line)
         IN  IF insertion_trace[1] = MaxInt \/ distance <= insertion_trace[1][1]
             THEN <<<<distance>>, ns[trace].parent_trace>>
             ELSE insertion_trace
    ELSE IF insertion_trace[2] = 0 THEN <<MaxInt, trace>>
    ELSE insertion_trace

InsertionStep(ns, insertion_trace, trace, ti) ==
    IF /\ ~IsNone(ns[trace].trace_info)
       /\ Val(ns[trace].trace_info).cmake_file = ti.cmake_file
    THEN LET distance == Abs(Val(ns[trace].trace_info).cmake_line - ti.cmake_line)
         IN  IF Nearer(distance, insertion_trace[1])
             THEN <<<<distance>>, ns[trace].parent_trace>>
             ELSE insertion_trace
    ELSE IF insertion_trace[2] = 0 THEN <<MaxInt, trace>>
    ELSE insertion_trace

RECURSIVE InsertionFold(_, _, _, _)
InsertionFold(ns, insertion_trace, frames, ti) ==
    IF Len(frames) = 0 THEN insertion_trace
    ELSE InsertionFold(ns, InsertionStep(ns, insertion_trace, Head(frames), ti),
                       Tail(frames), ti)

\* lines 158-168: the parent chosen when the nesting is not known
ResolveParent(ns, parent_trace, ti) ==
    LET insertion_trace ==
            InsertionFold(ns, <<MaxInt, 0>>, enumerate_frames(ns, parent_trace), ti)
    IN  IF insertion_trace[2] # 0 THEN insertion_trace[2] ELSE parent_trace

\* lines 178-180: parent_trace after `steps` ascents, 0 when the assertion
\* `parent_trace.parent_trace is not None` fails on the way
RECURSIVE Ascend(_, _, _)
Ascend(ns, parent_trace, steps) ==
    IF steps = 0 THEN parent_trace
    ELSE IF ns[parent_trace].parent_trace = 0 THEN 0
    ELSE Ascend(ns, ns[parent_trace].parent_trace, steps - 1)

\* lines 140-189: the parent the new node is attached to
\* ([exc |-> "none", parent |-> p], or the exception raised)
DescendFirst(ns, parent_trace) ==
    IF Len(ns[parent_trace].subtraces) = 0
    THEN [exc |-> "IndexError", parent |-> 0]
    ELSE [exc |-> "none", parent |-> Head(ns[parent_trace].subtraces)]

Descend(ns, parent_trace) ==
    IF Len(ns[parent_trace].subtraces) = 0
    THEN [exc |-> "IndexError", parent |-> 0]
    ELSE [exc |-> "none", parent |-> Last(ns[parent_trace].subtraces)]

ChooseParent(ns, parent_trace, current_nesting, previous_nesting, ti) ==
    LET nesting_diff == current_nesting - previous_nesting
    IN  IF current_nesting = 0
        THEN [exc |-> "none", parent |-> ResolveParent(ns, parent_trace, ti)]
        ELSE IF nesting_diff = 0
        THEN [exc |-> "none", parent |-> parent_trace]
        ELSE IF nesting_diff < 0
        THEN LET p == Ascend(ns, parent_trace, 0 - nesting_diff)
             IN  IF p = 0 THEN [exc |-> "AssertionError", parent |-> 0]
                 ELSE [exc |-> "none", parent |-> p]
        ELSE IF nesting_diff = 1
        THEN Descend(ns, parent_trace)
        ELSE [exc |-> "AssertionError", parent |-> 0]

\* lines 191-192: a child of the sentinel is also a top level trace
TopLevelAlways(ns, traces, parent_trace) ==
    Append(traces, Last(ns[parent_trace].subtraces))

TopLevel(ns, traces, parent_trace) ==
    IF IsNone(ns[parent_trace].trace_info)
    THEN Append(traces, Last(ns[parent_trace].subtraces))
    ELSE traces

\* _update_traces: the forest after the call, the parent it returns, and the
\* exception it raises instead (the forest is then as before the call)
update_traces(ns, traces, parent_trace, current_timeval, previous_timeval, current_nesting, previous_nesting, previous_trace_info) ==
    LET duration == Duration(current_timeval, previous_timeval)
        where == ChooseParent(ns, parent_trace, current_nesting, previous_nesting,
                              previous_trace_info)
        grown == AppendTrace(ns, duration, previous_trace_info, where.parent)
    IN  IF where.exc # "none"
        THEN [exc |-> where.exc, nodes |-> ns, traces |-> traces,
              parent_trace |-> parent_trace]
        ELSE [exc |-> "none", nodes |-> grown,
              traces |-> TopLevel(grown, traces, where.parent),
              parent_trace |-> where.parent]

(***************************************************************************)
(* _print_traces and the stored form of the forest                         *)
(***************************************************************************)
\* store_trace(trace): _StoredTrace(trace_info, duration, subtraces), which has
\* the fields _print_traces reads of a _CmakeTrace
RECURSIVE store_trace(_, _)
store_trace(ns, t) ==
    [trace_info |-> ns[t].trace_info, duration |-> ns[t].duration,
     subtraces |-> [k \in 1..Len(ns[t].subtraces) |-> store_trace(ns, ns[t].subtraces[k])]]

StoreForest(ns, traces) == [k \in 1..Len(traces) |-> store_trace(ns, traces[k])]

\* sum(t.duration for t in all_traces)
RECURSIVE SumFrom(_, _)
SumFrom(start, traces) ==
    IF Len(traces) = 0 THEN start
    ELSE SumFrom(FloatSum(start, Head(traces).duration), Tail(traces))

SumDuration(traces) == SumFrom(0, traces)

\* sorted(traces, key=lambda x: x.duration, reverse=True): stable, so traces
\* of equal duration keep their order
RECURSIVE InsertSorted(_, _)
InsertSorted(sorted, t) ==
    IF Len(sorted) = 0 THEN <<t>>
    ELSE IF Head(sorted).duration >= t.duration
    THEN <<Head(sorted)>> \o InsertSorted(Tail(sorted), t)
    ELSE <<t>> \o sorted

RECURSIVE SortedTraces(_)
SortedTraces(traces) ==
    IF Len(traces) = 0 THEN <<>>
    ELSE InsertSorted(SortedTraces(SubSeq(traces, 1, Len(traces) - 1)), Last(traces))

\* trace.duration / whole_duration < args.threshold, the threshold being the
\* fraction threshold[1] / threshold[2]. The comparison is that of the code
\* for a threshold that is a float exactly and durations held here, of which
\* none is a quotient that rounding could move across the threshold; for
\* anything else no answer is given. (A whole duration of 0 raises
\* ZeroDivisionError, see Report.)
BelowThreshold(duration, whole_duration, threshold) ==
    CASE /\ IsPowerOfTwo(threshold[2])
         /\ threshold[1] \in 0..threshold[2]
         /\ threshold[2] < Grain
         /\ HeldDuration(duration)
         /\ HeldDuration(whole_duration)
         /\ whole_duration > 0 ->
            duration * threshold[2] < threshold[1] * whole_duration

\* to_string_plain (lines 108-111) formats any trace info
to_string_plain(trace_info) == [ok |-> TRUE]

\* to_string_adjusted (lines 92-106) begins with len(self.cmake_line), and
\* cmake_line is the int of line 249: len() of an int raises TypeError
to_string_adjusted(trace_info) == [ok |-> Val(trace_info).cmake_line \notin Int]

\* ti_to_string (line 305): the formatter chosen at lines 359-361
ti_to_string(args, trace_info) ==
    IF IsNone(args.trace_info_width) THEN to_string_plain(trace_info)
    ELSE to_string_adjusted(trace_info)

\* line 301: args.depth and indent + 1 > args.depth
TooDeep(args, indent) == args.depth # 0 /\ indent + 1 > args.depth

\* print_traces_loop(traces, indent): the lines printed, in order; the loop
\* over ordered_traces continues at position k
RECURSIVE print_traces_loop(_, _, _, _)
RECURSIVE PrintFrom(_, _, _, _, _)
PrintFromSkipping(args, ordered_traces, k, indent, whole_duration) ==
    IF k > Len(ordered_traces) THEN <<>>
    ELSE IF TooDeep(args, indent) THEN <<>>
    ELSE IF BelowThreshold(ordered_traces[k].duration, whole_duration, args.threshold)
    THEN PrintFrom(args, ordered_traces, k + 1, indent, whole_duration)
    ELSE <<[nesting |-> indent + 1, trace_info |-> ordered_traces[k].trace_info,
            duration |-> ordered_traces[k].duration]>>
         \o print_traces_loop(args, ordered_traces[k].subtraces, indent + 1,
                              whole_duration)
         \o (IF args.one /\ indent = 0 THEN <<>>
             ELSE PrintFrom(args, ordered_traces, k + 1, indent, whole_duration))

PrintFrom(args, ordered_traces, k, indent, whole_duration) ==
    IF k > Len(ordered_traces) THEN <<>>
    ELSE IF TooDeep(args, indent) THEN <<>>
    ELSE IF BelowThreshold(ordered_traces[k].duration, whole_duration, args.threshold)
    THEN <<>>
    ELSE <<[nesting |-> indent + 1, trace_info |-> ordered_traces[k].trace_info,
            duration |-> ordered_traces[k].duration]>>
         \o print_traces_loop(args, ordered_traces[k].subtraces, indent + 1,
                              whole_duration)
         \o (IF args.one /\ indent = 0 THEN <<>>
             ELSE PrintFrom(args, ordered_traces, k + 1, indent, whole_duration))

print_traces_loop(args, traces, indent, whole_duration) ==
    PrintFrom(args, IF args.sort_traces THEN SortedTraces(traces) ELSE traces,
              1, indent, whole_duration)

(***************************************************************************)
(* Inputs                                                                  *)
(***************************************************************************)
\* the most lines of a trace of the general specification
MaxLines == 4

\* a trace line as cmake writes it: (timestamp) [(frame)] file(line):  code
TraceLine(timestamp, frame, file, line, code) ==
    <<"(">> \o timestamp \o <<")", " ">>
    \o (IF IsNone(frame) THEN <<>> ELSE <<"(">> \o Val(frame) \o <<")", " ">>)
    \o file \o <<"(">> \o line \o <<")", ":", " ", " ">> \o code

T100 == <<"1", "0", ".", "0">>
T105 == <<"1", "0", ".", "5">>
Call == <<"f", "(", ")">>
OpenCall == <<"f", "(">>

\* lines with a nesting field, between -1 and 3
FrameLines ==
    {TraceLine(T105, Some(d), <<"a">>, <<"1">>, Call) :
        d \in {<<"-", "1">>, <<"0">>, <<"1">>, <<"2">>, <<"3">>}}
    \cup {TraceLine(T100, Some(<<"1">>), <<"a">>, <<"1">>, Call)}

\* lines without nesting field, in two files
PlainLines ==
    {TraceLine(T105, None, <<"a">>, <<"3">>, Call),
     TraceLine(T100, None, <<"b">>, <<"2">>, Call)}

InputLines == FrameLines \cup PlainLines

\* a call left open, the line that closes it and a message of the script,
\* among trace lines; one line ends in a carriage return, one in a vertical tab
TextLines ==
    {TraceLine(T105, Some(<<"1">>), <<"a">>, <<"1">>, Call) \o <<"\r">>,
     TraceLine(T100, None, <<"b">>, <<"2">>, Call),
     TraceLine(T105, Some(<<"1">>), <<"a">>, <<"2">>, OpenCall),
     <<"x", ")">>,
     <<"-", "-", " ", "m", "s", "g", " ", VerticalTab>>}

\* the nesting fields of the seven events of a properly nested trace
NestedFrames == <<<<"1">>, <<"2">>, <<"1">>, <<"2">>, <<"3">>, <<"2">>, <<"1">>>>

NestedLines(k) ==
    {TraceLine(t, Some(NestedFrames[k]), <<"a">>, <<"1">>, Call) : t \in {T100, T105}}

\* trace lines whose timestamp, nesting or line number is no number, among
\* lines that are trace lines (one of them with its numbers written with an
\* exponent, a sign and blanks) and a line that has not the form of one
NotANumber == <<"x">>

FieldLines ==
    {TraceLine(T105, Some(<<"1">>), <<"a">>, <<"1">>, Call),
     TraceLine(T105, Some(<<"1">>), <<"a">>, <<"2">>, OpenCall),
     TraceLine(T100, None, <<"a">>, <<"3">>, Call),
     TraceLine(<<"1", "e", "1">>, Some(<<"+", " ", "1">>), <<"a">>, <<" ", "2", " ">>, Call),
     TraceLine(NotANumber, Some(<<"1">>), <<"a">>, <<"1">>, Call),
     TraceLine(T105, Some(NotANumber), <<"a">>, <<"1">>, Call),
     TraceLine(T105, Some(<<"1">>), <<"a">>, NotANumber, Call),
     <<"x", ")">>}

\* a trace for the report: each event in its own line of the script, at depth
\* 1 or 2, at 0, 1.5 or 2.5 s (floats whose differences are exact)
RenderNumbers == <<"1", "2", "3", "4">>

RenderTimes ==
    {<<"0", ".", "0">>, <<"1", ".", "5">>, <<"2", ".", "5">>}

RenderLines(k) ==
    {TraceLine(t, Some(d), <<"a">>, <<RenderNumbers[k]>>, Call) :
        t \in RenderTimes, d \in {<<"1">>, <<"2">>}}

\* the commands else and elseif as scripts write them, and other commands
ElseCodes ==
    {Call,
     <<"e", "l", "s", "e", "(", ")">>,
     <<"E", "L", "S", "E", "(", ")">>,
     <<"e", "l", "s", "e", "i", "f", " ", "(", "x", ")">>,
     <<"e", "l", "s", "e", "w", "(", ")">>}

ElseLines ==
    {TraceLine(T105, Some(<<"1">>), <<"a">>, <<"1">>, code) : code \in ElseCodes}
    \cup {TraceLine(T105, None, <<"a">>, <<"1">>, <<"e", "l", "s", "e", "(", ")">>)}

\* lines without nesting field in two files, and lines with a nesting field
\* that is used or ignored
UnknownLines ==
    {TraceLine(T105, None, <<"a">>, <<"1">>, Call),
     TraceLine(T105, None, <<"a">>, <<"2">>, Call),
     TraceLine(T105, None, <<"b">>, <<"2">>, Call),
     TraceLine(T105, Some(<<"1">>), <<"a">>, <<"1">>, Call),
     TraceLine(T105, Some(<<"2">>), <<"a">>, <<"3">>, Call),
     TraceLine(T105, Some(<<"3">>), <<"b">>, <<"1">>, Call)}

\* lines with timestamps of 2^34 s and 2^34 + 1 s, and a line that has not
\* the form of a trace line
EpochTimes == {TwoTo34, SubSeq(TwoTo34, 1, Len(TwoTo34) - 1) \o <<"5">>}

EpochLines ==
    {TraceLine(t, frame, <<"a">>, <<"1">>, Call) :
        t \in EpochTimes, frame \in {None, Some(<<"1">>)}}
    \cup {<<"x", ")">>}

\* what a shelf left by an earlier run holds, the run being that on the lines
\* '(10.0) (1) o(1):  f()', '(11.0) (2) o(2):  f()', '(11.5) (2) o(3):  f()':
\* an event of 1 s with a nested event of 0.5 s and, next to that, the last
\* event
OldForest ==
    <<[trace_info |-> Some(CmakeTraceInfo(<<"o">>, 1, Call)),
       duration |-> 1500000 + TrailingDuration,
       subtraces |-> <<[trace_info |-> Some(CmakeTraceInfo(<<"o">>, 2, Call)),
                        duration |-> 500000, subtraces |-> <<>>],
                       [trace_info |-> Some(CmakeTraceInfo(<<"o">>, 3, Call)),
                        duration |-> TrailingDuration, subtraces |-> <<>>]>>]>>

\* the database modules anydbm can pick for shelve.open: dbhash keeps a shelf
\* in the file args.shelve_file itself, dumbdbm keeps it in the files
\* args.shelve_file + '.dat', '.dir' and '.bak'
DbmModules == {"dbhash", "dumbdbm"}

\* the report shaping options tried: -t as a fraction, -d, -s, -1, and -w,
\* which is not given or a width
Thresholds == {<<0, 1>>, <<1, 4>>, <<1, 2>>}
DepthLimits == {0, 1}
Widths == {None, Some(40)}

(***************************************************************************)
(* State                                                                   *)
(***************************************************************************)
VARIABLES
    pc,                    \* where _main is: "start", "collect", "finish", "report", "done", "error"
    exc,                   \* the exception that ended the run, "none" otherwise
    ignore_nesting,        \* args.ignore_nesting
    report_only,           \* args.report_only
    args,                  \* args.threshold (a fraction), args.depth, args.sort_traces, args.one,
                           \* args.trace_info_width
    dbm,                   \* the database module shelve.open stores with on this build
    shelf,                 \* the shelf: [exists, data], data the value under 'traces' or None
    feed,                  \* which input stream is read: a name of Feed
    consumed,              \* the lines read so far
    events,                \* the events _parse_cmake_log has yielded so far
    stderr,                \* the lines written to sys.stderr
    stdout,                \* the report lines printed
    current_nesting,       \* locals of _parse_cmake_log
    current_timeval,
    current_trace_info,
    previous_nesting,      \* locals of _collect_stats
    previous_timeval,
    previous_trace_info,
    previous_nesting_diff,
    parent_trace,
    nodes,                 \* the _CmakeTrace objects, the sentinel first
    all_traces,            \* the list `traces` of top level nodes
    forest                 \* all_traces as _print_traces reads it

parser == <<current_nesting, current_timeval, current_trace_info>>
collector == <<previous_nesting, previous_timeval, previous_trace_info,
               previous_nesting_diff, parent_trace, nodes, all_traces>>
vars == <<pc, exc, ignore_nesting, report_only, args, dbm, shelf, feed, consumed, events,
          stderr, stdout, parser, collector, forest>>

\* the lines an input stream can hold, position by position
Feed(name) ==
    CASE name = "nested" -> [k \in 1..Len(NestedFrames) |-> NestedLines(k)]
      [] name = "text" -> [k \in 1..MaxLines |-> TextLines]
      [] name = "fields" -> [k \in 1..MaxLines |-> FieldLines]
      [] name = "else" -> [k \in 1..MaxLines |-> ElseLines]
      [] name = "unknown" -> [k \in 1..MaxLines |-> UnknownLines]
      [] name = "epoch" -> [k \in 1..MaxLines |-> EpochLines]
      [] name = "render" -> [k \in 1..Len(RenderNumbers) |-> RenderLines(k)]
      [] OTHER -> [k \in 1..MaxLines |-> InputLines]

\* the report options a run on an input stream can be started with
DefaultOptions == [threshold |-> <<0, 1>>, depth |-> 0, sort_traces |-> FALSE,
                   one |-> FALSE, trace_info_width |-> None]

ReportOptions ==
    [threshold : Thresholds, depth : DepthLimits, sort_traces : BOOLEAN, one : BOOLEAN,
     trace_info_width : Widths]

\* a trace of whole duration 0 is also reported with a depth below 0, which
\* --depth takes as any other int
EpochOptions == {[DefaultOptions EXCEPT !.depth = d] : d \in {0, 0 - 1}}

Options(name) ==
    IF name \in {"nested", "render"} THEN ReportOptions
    ELSE IF name = "epoch" THEN EpochOptions
    ELSE {DefaultOptions}

InitWith(name, options) ==
    /\ pc = "start"
    /\ exc = "none"
    /\ ignore_nesting \in options
    /\ report_only \in BOOLEAN
    /\ args \in Options(name)
    /\ dbm \in DbmModules
    /\ shelf \in {[exists |-> FALSE, data |-> None],
                  [exists |-> TRUE, data |-> Some(OldForest)]}
    /\ feed = name
    /\ consumed = <<>>
    /\ events = <<>>
    /\ stderr = <<>>
    /\ stdout = <<>>
    /\ current_nesting = None
    /\ current_timeval = None
    /\ current_trace_info = None
    /\ previous_nesting = 1
    /\ previous_timeval = None
    /\ previous_trace_info = None
    /\ previous_nesting_diff = 0
    /\ parent_trace = Root
    /\ nodes = <<RootTrace>>
    /\ all_traces = <<>>
    /\ forest = <<>>

Init == InitWith("mixed", {FALSE})

InitNested == InitWith("nested", {FALSE})

InitText == InitWith("text", BOOLEAN)

InitFields == InitWith("fields", BOOLEAN)

InitRender == InitWith("render", {FALSE})

InitElse == InitWith("else", BOOLEAN)

InitUnknown == InitWith("unknown", BOOLEAN)

InitEpoch == InitWith("epoch", {FALSE})

(***************************************************************************)
(* _collect_stats                                                          *)
(***************************************************************************)
\* the locals of _collect_stats and the forest, as one value
Collector ==
    [exc |-> "none",
     previous_nesting |-> previous_nesting,
     previous_timeval |-> previous_timeval,
     previous_trace_info |-> previous_trace_info,
     previous_nesting_diff |-> previous_nesting_diff,
     parent_trace |-> parent_trace,
     nodes |-> nodes,
     all_traces |-> all_traces]

\* lines 267-281: the body of the for loop, for the event ev
Consume(c, ev) ==
    LET u == IF IsNone(c.previous_trace_info)
             THEN [exc |-> "none", nodes |-> c.nodes, traces |-> c.all_traces,
                   parent_trace |-> c.parent_trace]
             ELSE update_traces(c.nodes, c.all_traces, c.parent_trace,
                                Val(ev.timeval), Val(c.previous_timeval),
                                c.previous_nesting,
                                c.previous_nesting - c.previous_nesting_diff,
                                Val(c.previous_trace_info))
    IN  IF u.exc # "none" THEN [c EXCEPT !.exc = u.exc]
        ELSE [exc |-> "none",
              previous_nesting |->
                  IF IsNone(ev.nesting) THEN 0 ELSE Val(ev.nesting),
              previous_nesting_diff |->
                  IF IsNone(ev.nesting) THEN 0
                  ELSE Val(ev.nesting) - c.previous_nesting,
              previous_timeval |-> ev.timeval,
              previous_trace_info |-> Some(ev.trace_info),
              parent_trace |-> u.parent_trace,
              nodes |-> u.nodes,
              all_traces |-> u.traces]

\* the nesting arguments of the call of lines 287-290
FinalNesting(c) == <<c.previous_nesting, c.previous_nesting>>

\* lines 282-290: the else clause of the for loop
FinishWithoutLast(c) == c

Finish(c) ==
    IF IsNone(c.previous_trace_info) THEN c
    ELSE LET u == update_traces(c.nodes, c.all_traces, c.parent_trace,
                                PlusTrailing(Val(c.previous_timeval)),
                                Val(c.previous_timeval),
                                FinalNesting(c)[1], FinalNesting(c)[2],
                                Val(c.previous_trace_info))
         IN  IF u.exc # "none" THEN [c EXCEPT !.exc = u.exc]
             ELSE [c EXCEPT !.nodes = u.nodes, !.all_traces = u.traces]

\* the collector's variables take the values of c
SetCollector(c) ==
    /\ previous_nesting' = c.previous_nesting
    /\ previous_timeval' = c.previous_timeval
    /\ previous_trace_info' = c.previous_trace_info
    /\ previous_nesting_diff' = c.previous_nesting_diff
    /\ parent_trace' = c.parent_trace
    /\ nodes' = c.nodes
    /\ all_traces' = c.all_traces

\* the event _parse_cmake_log yields at lines 235 and 253
Pending ==
    [nesting |-> current_nesting, timeval |-> current_timeval,
     trace_info |-> Val(current_trace_info)]

(***************************************************************************)
(* _main                                                                   *)
(***************************************************************************)
\* os.path.exists(args.shelve_file) (lines 333 and 353): a file of just
\* this name exists when dbhash has made the shelf
PathExists == shelf.exists /\ dbm = "dbhash"

\* lines 351-355: the shelf is closed, the file args.shelve_file is removed
\* when there is one, the exception goes on to the interpreter
Raise(e) ==
    /\ pc' = "error"
    /\ exc' = e
    /\ shelf' = IF PathExists THEN [exists |-> FALSE, data |-> None] ELSE shelf

\* lines 329-342: unless the run only reports, the file args.shelve_file is
\* removed when there is one; the shelf is opened (and so created when there
\* is none), a report-only run loads the forest
Start ==
    /\ pc = "start"
    /\ shelf' = IF shelf.exists /\ ~(PathExists /\ ~report_only) THEN shelf
                ELSE [exists |-> TRUE, data |-> None]
    /\ forest' = IF report_only /\ shelf.exists /\ ~IsNone(shelf.data)
                 THEN Val(shelf.data) ELSE <<>>
    /\ pc' = IF report_only THEN "report" ELSE "collect"
    /\ UNCHANGED <<exc, ignore_nesting, report_only, args, dbm, feed, consumed, events,
                   stderr, stdout, parser, collector>>

\* lines 239-250: the fields of a matched line become the pending event
\* (ok = FALSE when int() or float() raises ValueError)
ParseFieldsFrameAlways(m) ==
    LET frame == IF IsNone(m.frame) THEN [ok |-> TRUE, val |-> 0]
                 ELSE ParseInt(Val(m.frame))
        nesting == IF IsNone(m.frame) THEN None
                   ELSE Some(frame.val + (IF NestingBugCommand(m.code) THEN 1 ELSE 0))
        timeval == ParseFloat(m.timestamp)
        line == ParseInt(m.line)
    IN  [ok |-> frame.ok /\ timeval.ok /\ line.ok,
         nesting |-> nesting,
         timeval |-> Some(timeval.val),
         trace_info |-> Some(CmakeTraceInfo(m.file, line.val, m.code))]

ParseFields(m) ==
    LET frame == IF IsNone(m.frame) THEN [ok |-> TRUE, val |-> 0]
                 ELSE ParseInt(Val(m.frame))
        nesting == IF ignore_nesting THEN current_nesting
                   ELSE IF IsNone(m.frame) THEN None
                   ELSE Some(frame.val + (IF NestingBugCommand(m.code) THEN 1 ELSE 0))
        timeval == ParseFloat(m.timestamp)
        line == ParseInt(m.line)
    IN  [ok |-> (ignore_nesting \/ frame.ok) /\ timeval.ok /\ line.ok,
         nesting |-> nesting,
         timeval |-> Some(timeval.val),
         trace_info |-> Some(CmakeTraceInfo(m.file, line.val, m.code))]

\* the prefix of the lines printed to sys.stderr: 'Ignored: {}'
Ignored == <<"I", "g", "n", "o", "r", "e", "d", ":", " ">>

\* the lines the input stream can deliver next
NextLines ==
    IF Len(consumed) < Len(Feed(feed)) THEN Feed(feed)[Len(consumed) + 1] ELSE {}

\* one pass of the for loop of _parse_cmake_log (lines 220-250) over the line
\* l, with the pass of the loop of _collect_stats that a yield starts
ReadLine(l) ==
    /\ pc = "collect"
    /\ l \in NextLines
    /\ consumed' = Append(consumed, l)
    /\ UNCHANGED <<ignore_nesting, report_only, args, dbm, feed, stdout, forest>>
    /\ LET line == RStrip(l)
           m == Matcher(line)
           yields == ~IsNone(current_trace_info)
           c == IF yields THEN Consume(Collector, Pending) ELSE Collector
           f == ParseFields(m)
       IN  IF ~m.ok
           THEN /\ IF \/ IsNone(current_trace_info)
                      \/ match_parens(Val(current_trace_info).cmake_code_line)
                   THEN /\ stderr' = Append(stderr, Ignored \o line)
                        /\ UNCHANGED parser
                   ELSE /\ current_trace_info' =
                               Some([Val(current_trace_info) EXCEPT
                                       !.cmake_code_line = @ \o <<"\\", "n">> \o line])
                        /\ UNCHANGED <<stderr, current_nesting, current_timeval>>
                /\ UNCHANGED <<pc, exc, shelf, events, collector>>
           ELSE /\ events' = IF yields THEN Append(events, Pending) ELSE events
                /\ SetCollector(c)
                /\ UNCHANGED stderr
                /\ IF c.exc # "none"
                   THEN Raise(c.exc) /\ UNCHANGED parser
                   ELSE IF ~f.ok
                   THEN Raise("ValueError") /\ UNCHANGED parser
                   ELSE /\ current_nesting' = f.nesting
                        /\ current_timeval' = f.timeval
                        /\ current_trace_info' = f.trace_info
                        /\ UNCHANGED <<pc, exc, shelf>>

\* the input is exhausted: the else clause of lines 251-253 yields the pending
\* event, which starts the last pass of the loop of _collect_stats
LastYield ==
    /\ pc = "collect"
    /\ UNCHANGED <<ignore_nesting, report_only, args, dbm, feed, consumed, stderr, stdout, parser,
                   forest>>
    /\ LET yields == ~IsNone(current_trace_info)
           c == IF yields THEN Consume(Collector, Pending) ELSE Collector
       IN  /\ events' = IF yields THEN Append(events, Pending) ELSE events
           /\ SetCollector(c)
           /\ IF c.exc # "none"
              THEN Raise(c.exc)
              ELSE pc' = "finish" /\ UNCHANGED <<exc, shelf>>

\* the else clause of lines 282-290 attaches the last event, then lines 345-350
\* save the forest and close the shelf
EndOfStream ==
    /\ pc = "finish"
    /\ UNCHANGED <<ignore_nesting, report_only, args, dbm, feed, consumed, events, stderr, stdout,
                   parser>>
    /\ LET d == Finish(Collector)
       IN  /\ SetCollector(d)
           /\ IF d.exc # "none"
              THEN Raise(d.exc) /\ UNCHANGED forest
              ELSE /\ shelf' = [exists |-> TRUE,
                                data |-> Some(StoreForest(d.nodes, d.all_traces))]
                   /\ forest' = StoreForest(d.nodes, d.all_traces)
                   /\ pc' = "report"
                   /\ UNCHANGED exc

\* lines 357-363: the report. The first trace of the walk, when it is not
\* too deep (line 301), is divided by the whole duration (line 303) before
\* anything is formatted. With -w the lines are formatted by
\* to_string_adjusted (lines 359-361), and the first of them raises TypeError
\* before it is printed.
Report ==
    /\ pc = "report"
    /\ LET whole_duration == SumDuration(forest)
           lines == print_traces_loop(args, forest, 0, whole_duration)
       IN  IF Len(forest) > 0 /\ ~TooDeep(args, 0) /\ whole_duration = 0
           THEN /\ pc' = "error"
                /\ exc' = "ZeroDivisionError"
                /\ UNCHANGED stdout
           ELSE IF Len(lines) > 0 /\ ~ti_to_string(args, Head(lines).trace_info).ok
           THEN /\ pc' = "error"
                /\ exc' = "TypeError"
                /\ UNCHANGED stdout
           ELSE /\ stdout' = lines
                /\ pc' = "done"
                /\ UNCHANGED exc
    /\ UNCHANGED <<ignore_nesting, report_only, args, dbm, shelf, feed, consumed, events, stderr,
                   parser, collector, forest>>

Next ==
    \/ Start
    \/ \E l \in NextLines : ReadLine(l)
    \/ LastYield
    \/ EndOfStream
    \/ Report

Spec == Init /\ [][Next]_vars

SpecNested == InitNested /\ [][Next]_vars

SpecText == InitText /\ [][Next]_vars

SpecFields == InitFields /\ [][Next]_vars

SpecRender == InitRender /\ [][Next]_vars

SpecElse == InitElse /\ [][Next]_vars

SpecUnknown == InitUnknown /\ [][Next]_vars

SpecEpoch == InitEpoch /\ [][Next]_vars

(***************************************************************************)
(* Properties                                                              *)
(***************************************************************************)
\* the run collected a trace and read it to the end of the stream
Collected == pc \in {"report", "done"} /\ ~report_only

\* the nodes created for events: the node of the j-th event is j + 1
TraceNodes == 2..Len(nodes)

NodeOf(j) == j + 1

RECURSIVE SumOver(_, _)
SumOver(f, seq) == IF Len(seq) = 0 THEN 0 ELSE f[Head(seq)] + SumOver(f, Tail(seq))

\* the sum of the cumulative durations of the direct children of node n
ChildrenDuration(n) == SumOver([k \in 1..Len(nodes) |-> nodes[k].duration],
                               nodes[n].subtraces)

\* the time attributed to the j-th event itself: the time to the next event,
\* 0 when that is negative, and the nominal 10E-7 s for the last event
OwnDuration(j) ==
    IF j < Len(events)
    THEN LET d == Val(events[j + 1].timeval).ticks - Val(events[j].timeval).ticks
         IN  IF d >= 0 THEN d ELSE 0
    ELSE TrailingDuration

\* the number of edges between node n and the sentinel
RECURSIVE Level(_)
Level(n) == IF nodes[n].parent_trace = 0 THEN 0 ELSE 1 + Level(nodes[n].parent_trace)

\* C1: at every step of the tree building and at the end of the stream the
\* cumulative duration of every node is its own attributed duration plus the
\* cumulative durations of its direct children, and that of the sentinel is
\* the sum of the cumulative durations of its children.
C1_AncestorPropagation ==
    /\ nodes[Root].duration = ChildrenDuration(Root)
    /\ \A n \in TraceNodes :
          nodes[n].duration = OwnDuration(n - 1) + ChildrenDuration(n)

\* a node two levels below a top level node that took time itself, and a
\* node below a top level node that took more than the nominal time
C1_Witness ==
    /\ Collected
    /\ \E n \in TraceNodes : Level(n) >= 3 /\ nodes[n].duration > 0
    /\ \E n \in TraceNodes : Level(n) >= 2 /\ nodes[n].duration > TrailingDuration

\* C2: after the end of the stream the whole duration of the renderer, the
\* sum of the cumulative durations of the top level entries, is the sum of the
\* own durations of all events; and the top level list is always the list of
\* children of the sentinel.
C2_WholeDuration ==
    /\ all_traces = nodes[Root].subtraces
    /\ Collected =>
          SumDuration(forest) = SumOver([j \in 1..Len(events) |-> OwnDuration(j)],
                                        [j \in 1..Len(events) |-> j])

\* a forest with two top level entries and a nested node, whose events took time
C2_Witness ==
    /\ Collected
    /\ Len(all_traces) >= 2
    /\ \E n \in TraceNodes : Level(n) >= 2 /\ nodes[n].duration > TrailingDuration

\* the nodes reachable from a list of nodes, parents before children, each as
\* often as it is reached
RECURSIVE Preorder(_)
Preorder(traces) ==
    IF Len(traces) = 0 THEN <<>>
    ELSE <<Head(traces)>> \o Preorder(nodes[Head(traces)].subtraces)
         \o Preorder(Tail(traces))

\* the lines read that have the form of a trace line
ParseableLines == {k \in 1..Len(consumed) : Matcher(RStrip(consumed[k])).ok}

\* C3: a trace with N parseable events read to the end of the stream gives a
\* forest in which exactly N nodes are reachable from the top level list, each
\* once, the j-th carrying the call site of the j-th event.
C3_OneNodePerEvent ==
    Collected =>
        LET reached == Preorder(all_traces)
            N == Cardinality(ParseableLines)
        IN  /\ Len(events) = N
            /\ Len(reached) = N
            /\ {reached[k] : k \in 1..Len(reached)} = 2..(N + 1)
            /\ \A j \in 1..N : nodes[NodeOf(j)].trace_info = Some(events[j].trace_info)

\* the code text holds a line break marker
Continued(code) == \E k \in 1..Len(code) : code[k] = "\\"

\* two events, one of them spanning two lines, and a line that is no event
C3_Witness ==
    /\ Collected
    /\ Len(events) = 2
    /\ \E j \in 1..Len(events) : Continued(events[j].trace_info.cmake_code_line)
    /\ Len(stderr) = 1
    /\ Len(consumed) = 4
    /\ Len(Preorder(all_traces)) = 2

\* the own duration of node n: its cumulative duration less that of its children
OwnOf(n) == nodes[n].duration - ChildrenDuration(n)

\* C4: the node of an event that has a successor gets as own duration the
\* successor's timestamp minus its own when that is not negative, and 0
\* when it is negative; no own or cumulative duration is negative.
C4_DurationClamped ==
    /\ \A j \in 1..(Len(events) - 1) :
          NodeOf(j) \in TraceNodes =>
              LET d == Val(events[j + 1].timeval).ticks - Val(events[j].timeval).ticks
              IN  /\ d >= 0 => OwnOf(NodeOf(j)) = d
                  /\ d < 0 => OwnOf(NodeOf(j)) = 0
    /\ \A n \in 1..Len(nodes) : nodes[n].duration >= 0 /\ OwnOf(n) >= 0

\* timestamps 10.0 then 10.5 give the first node 0.5 s, and timestamps 10.5
\* then 10.0 give the node of the first of the two 0 s
C4_Witness ==
    /\ Len(nodes) >= 3
    /\ Val(events[1].timeval) = Float(0, 10000000)
    /\ Val(events[2].timeval) = Float(0, 10500000)
    /\ Val(events[3].timeval) = Float(0, 10000000)
    /\ OwnOf(NodeOf(1)) = 500000
    /\ OwnOf(NodeOf(2)) = 0

\* the nesting depths of the events, as the parser emitted them
Depth(j) == Val(events[j].nesting)

\* every event carries a depth, the first is 1, all are at least 1 and none
\* exceeds the one before it by more than 1
WellNested ==
    /\ Len(events) >= 1
    /\ \A j \in 1..Len(events) : ~IsNone(events[j].nesting) /\ Depth(j) >= 1
    /\ Depth(1) = 1
    /\ \A j \in 2..Len(events) : Depth(j) - Depth(j - 1) <= 1

\* the nearest event before the j-th whose depth is one less
Encloser(j) ==
    CHOOSE i \in 1..(j - 1) :
        /\ Depth(i) = Depth(j) - 1
        /\ \A k \in (i + 1)..(j - 1) : Depth(k) # Depth(j) - 1

\* the node of the j-th event is where its depth puts it
ProperlyPlaced(j) ==
    IF Depth(j) = 1 THEN nodes[NodeOf(j)].parent_trace = Root
    ELSE nodes[NodeOf(j)].parent_trace = NodeOf(Encloser(j))

\* C5 (as claimed): after the end of a well nested trace the node of every
\* event, the last one included, is top level when its depth is 1 and is
\* otherwise a child of the node of the nearest preceding event whose depth is
\* one less.
C5_EveryEventPlaced ==
    Collected /\ WellNested => \A j \in 1..Len(events) : ProperlyPlaced(j)

\* C6 (as claimed): events of depths 1,2,1,2,3,2,1 give a tree in which the
\* node of the fifth event, of depth 3, is a grandchild of the node of the
\* first event of depth 1.
NestedDepths == <<1, 2, 1, 2, 3, 2, 1>>

NestedTrace ==
    /\ Collected
    /\ Len(events) = Len(NestedDepths)
    /\ \A j \in 1..Len(events) :
          ~IsNone(events[j].nesting) /\ Depth(j) = NestedDepths[j]

Grandparent(n) == nodes[nodes[n].parent_trace].parent_trace

C6_GrandchildOfFirst == NestedTrace => Grandparent(NodeOf(5)) = NodeOf(1)

\* C6 (amended): in that tree the node of the fifth event is a child of the
\* node of the fourth event and a grandchild of the node of the third event,
\* which is the second event of depth 1 and a top level node; the node of the
\* first event is none of its ancestors.
C6_GrandchildOfNearest ==
    NestedTrace =>
        /\ nodes[NodeOf(5)].parent_trace = NodeOf(4)
        /\ Grandparent(NodeOf(5)) = NodeOf(3)
        /\ nodes[NodeOf(3)].parent_trace = Root
        /\ nodes[NodeOf(1)].subtraces = <<NodeOf(2)>>

C6_Witness == NestedTrace /\ Level(NodeOf(5)) = 3 /\ pc = "done"

\* C7 (as claimed): a run in which the known depth of some event exceeds the
\* known depth of the event before it by more than 1 does not complete, the
\* last event of the stream included.
DepthJump(j) ==
    /\ ~IsNone(events[j].nesting)
    /\ ~IsNone(events[j - 1].nesting)
    /\ Depth(j) - Depth(j - 1) > 1

C7_JumpIsFatal ==
    (\E j \in 2..Len(events) : DepthJump(j)) => pc \notin {"report", "done"}

\* C8 (as claimed): when the event about to be attached has a depth lower by
\* d than the event before it and the active parent has fewer than d levels
\* above it, the step that attaches it ends the run in an error; this holds
\* for the last event (attached by the step from "finish") and for depth 0.
LastEvent == Len(events)

AscendsPastRoot ==
    /\ LastEvent >= 2
    /\ ~IsNone(events[LastEvent].nesting)
    /\ ~IsNone(events[LastEvent - 1].nesting)
    /\ Depth(LastEvent - 1) - Depth(LastEvent) > Level(parent_trace)

Attaches == (pc = "collect" /\ events' # events) \/ (pc = "finish" /\ pc' # "finish")

C8_AscentPastRootIsFatal ==
    [][AscendsPastRoot /\ Attaches => pc' = "error"]_vars

\* C9 (as claimed): when an exception is raised while the trace is collected,
\* the run ends in an error state: nothing follows, no report line has been
\* printed, no forest is saved and no shelf exists (the shelf that was there
\* at the start of the run included).
FatalRaised == pc = "error" /\ exc \in {"AssertionError", "IndexError", "ValueError"}

C9_NoPartialResult ==
    FatalRaised =>
        /\ stdout = <<>>
        /\ ~shelf.exists
        /\ IsNone(shelf.data)
        /\ ~ENABLED Next

\* the code text has as many opening as closing parentheses
Balanced(code) ==
    Cardinality({k \in 1..Len(code) : code[k] = "("})
        = Cardinality({k \in 1..Len(code) : code[k] = ")"})

\* a line was read in this step, and it does not have the form of a trace line
ReadsOther ==
    /\ consumed' # consumed
    /\ ~Matcher(RStrip(Last(consumed'))).ok

\* C10: a line that fails the grammar gives no new event; it is appended,
\* after the marker \n, to the code text of the pending event when there is
\* one whose parentheses are unbalanced; otherwise it is written as an
\* 'Ignored: ' diagnostic and the pending event stays as it is.
C10_OtherLines ==
    [][ReadsOther =>
          LET line == RStrip(Last(consumed'))
          IN  /\ events' = events
              /\ nodes' = nodes
              /\ pc' = pc
              /\ current_nesting' = current_nesting
              /\ current_timeval' = current_timeval
              /\ IF /\ ~IsNone(current_trace_info)
                    /\ ~Balanced(Val(current_trace_info).cmake_code_line)
                 THEN /\ ~IsNone(current_trace_info')
                      /\ Val(current_trace_info').cmake_code_line =
                             Val(current_trace_info).cmake_code_line
                                 \o <<"\\", "n">> \o line
                      /\ Val(current_trace_info').cmake_file =
                             Val(current_trace_info).cmake_file
                      /\ Val(current_trace_info').cmake_line =
                             Val(current_trace_info).cmake_line
                      /\ stderr' = stderr
                 ELSE /\ stderr' = Append(stderr, Ignored \o line)
                      /\ current_trace_info' = current_trace_info]_vars

\* a line was joined to the pending event, and a later line was ignored
C10_Witness ==
    /\ ~IsNone(current_trace_info)
    /\ Continued(Val(current_trace_info).cmake_code_line)
    /\ Balanced(Val(current_trace_info).cmake_code_line)
    /\ Len(stderr) >= 1
    /\ Len(events) >= 1

\* the line has the form of a trace line and its timestamp, nesting and line
\* number are numbers
ValidTraceLine(line) ==
    LET m == Matcher(line)
    IN  /\ m.ok
        /\ ParseFloat(m.timestamp).ok
        /\ IsNone(m.frame) \/ ParseInt(Val(m.frame)).ok
        /\ ParseInt(m.line).ok

\* a line was read in this step, and it is no valid trace line
ReadsInvalid ==
    /\ consumed' # consumed
    /\ ~ValidTraceLine(RStrip(Last(consumed')))

\* C11 (as claimed): a line that is no valid trace line, a line of the form of
\* a trace line whose timestamp, nesting or line number is no number included,
\* is not fatal: the step that reads it raises no ValueError and the run goes
\* on reading.
C11_InvalidLineNotFatal ==
    [][ReadsInvalid => exc' # "ValueError" /\ pc' = "collect"]_vars

\* the run built a forest and printed its report
Reported == pc = "done" /\ ~report_only

\* the run built a forest and the renderer has walked it, to the end or to
\* the TypeError of the formatter
Rendered == ~report_only /\ (pc = "done" \/ (pc = "error" /\ exc = "TypeError"))

\* the natural width: no -w is given
NaturalWidth == IsNone(args.trace_info_width)

\* the whole duration: the sum of the cumulative durations of the top level nodes
WholeDuration == ChildrenDuration(Root)

\* the cumulative duration of node n divided by the whole duration is at
\* least the threshold
MeetsThreshold(n) ==
    nodes[n].duration * args.threshold[2] >= args.threshold[1] * WholeDuration

\* node n is not deeper than the maximum depth, when there is one
WithinDepth(n) == args.depth = 0 \/ Level(n) <= args.depth

\* node n and its ancestors, the sentinel left out
RECURSIVE Lineage(_)
Lineage(n) == IF n = Root THEN {} ELSE {n} \cup Lineage(nodes[n].parent_trace)

\* the children of the parent of node n that were inserted before n, and n
UpTo(n) ==
    LET siblings == nodes[nodes[n].parent_trace].subtraces
    IN  {siblings[k] : k \in 1..Len(siblings)} \cap 2..n

\* no sibling list on the way to node n holds, at or before the node on the
\* way, a node that is below the threshold or too deep
WalkReaches(n) ==
    \A m \in Lineage(n) : \A s \in UpTo(m) : MeetsThreshold(s) /\ WithinDepth(s)

\* the line of the report for node n
ReportLine(n) ==
    [nesting |-> Level(n), trace_info |-> nodes[n].trace_info,
     duration |-> nodes[n].duration]

\* the nodes of the events, in the order of the events
EventOrder == [j \in 1..(Len(nodes) - 1) |-> NodeOf(j)]

ReportOf(rendered) == [k \in 1..Len(rendered) |-> ReportLine(rendered[k])]

\* C12 (as claimed): with a threshold above 0 and without sorting, the report
\* holds, in the order of the events, exactly the nodes that the walk reaches:
\* in each sibling list the nodes before the first one that is below the
\* threshold or too deep; whatever the other options are.
C12_StopsAtFirstBelow ==
    Reported /\ ~args.sort_traces /\ args.threshold[1] > 0 =>
        stdout = ReportOf(SelectSeq(EventOrder, WalkReaches))

\* node n is, or is below, the first top level node
UnderFirst(n) == Head(all_traces) \in Lineage(n)

WalkReachesOne(n) == WalkReaches(n) /\ (args.one => UnderFirst(n))

\* C12 (amended): that holds when single path mode is off and no fixed
\* width is given; in single path mode the walk of the top level list also
\* ends after its first node, so that only nodes of the first top level tree
\* are rendered. No rendered node is below the threshold or deeper than the
\* maximum depth. With a fixed width nothing is rendered, and the run ends
\* with a TypeError when the walk reaches a node.
C12_StopsAtFirstBelowOrSinglePath ==
    Rendered /\ ~args.sort_traces /\ args.threshold[1] > 0 =>
        /\ NaturalWidth => stdout = ReportOf(SelectSeq(EventOrder, WalkReachesOne))
        /\ ~NaturalWidth =>
              /\ stdout = <<>>
              /\ pc = "error" <=> \E n \in TraceNodes : WalkReachesOne(n)
        /\ \A k \in 1..Len(stdout) :
              /\ stdout[k].duration * args.threshold[2]
                    >= args.threshold[1] * SumDuration(forest)
              /\ args.depth # 0 => stdout[k].nesting <= args.depth

\* top level nodes of 1.5 s and of 1 s and a tick, which are 0.6 and 0.4 of
\* the whole to a tick, the second with children, and a threshold of 0.5: the
\* report is the line of the first node
C12_Witness ==
    /\ Reported
    /\ NaturalWidth
    /\ ~args.sort_traces /\ ~args.one /\ args.depth = 0
    /\ args.threshold = <<1, 2>>
    /\ Len(all_traces) = 2
    /\ nodes[all_traces[1]].duration = 1500000
    /\ nodes[all_traces[2]].duration = 1000001
    /\ Len(nodes[all_traces[2]].subtraces) = 2
    /\ stdout = <<ReportLine(all_traces[1])>>

\* the lines of the report for top level nodes
TopLines == {k \in 1..Len(stdout) : stdout[k].nesting = 1}

\* no top level node has a larger cumulative duration
MostExpensive(duration) ==
    \A k \in 1..Len(forest) : forest[k].duration <= duration

\* C13 (as claimed): in single path mode, with or without sorting, at most
\* one top level node is rendered, and its cumulative duration is the largest
\* of all top level nodes.
C13_SinglePathIsMostExpensive ==
    pc = "done" /\ args.one =>
        /\ Cardinality(TopLines) <= 1
        /\ \A k \in TopLines : MostExpensive(stdout[k].duration)

\* C14 (as claimed): when the nesting is not ignored, every event that
\* follows an event without nesting field is emitted, as that event is, with
\* its depth unknown, so that it is attached by the resolver of the parent.
C14_UnknownFromThenOn ==
    ~ignore_nesting =>
        \A i \in 1..Len(events) : \A j \in i..Len(events) :
            IsNone(events[i].nesting) => IsNone(events[j].nesting)

\* the line the j-th event was read from: the j-th line of the form of a
\* trace line
LineOfEvent(j) ==
    RStrip(consumed[CHOOSE k \in ParseableLines :
                        Cardinality({i \in ParseableLines : i <= k}) = j])

\* the letters of the keywords in lower case
LowerCase(s) ==
    [k \in 1..Len(s) |->
        CASE s[k] = "E" -> "e" [] s[k] = "L" -> "l" [] s[k] = "S" -> "s"
          [] s[k] = "I" -> "i" [] s[k] = "F" -> "f" [] OTHER -> s[k]]

\* the code begins, in any letter case and after any whitespace, with the
\* command else or elseif and its opening parenthesis
BranchContinuation(code) ==
    LET c == LowerCase(LStrip(code))
    IN  \E w \in {<<"e", "l", "s", "e">>, <<"e", "l", "s", "e", "i", "f">>} :
            /\ StartsWith(c, w)
            /\ Len(LStrip(SubSeq(c, Len(w) + 1, Len(c)))) > 0
            /\ Head(LStrip(SubSeq(c, Len(w) + 1, Len(c)))) = "("

\* C15 (as claimed): when the nesting is used, an event read from a line with
\* a nesting field is emitted with that depth plus 1 when its code begins
\* with else( or elseif( in any letter case, and with exactly that depth
\* otherwise.
C15_ElseAnyCase ==
    ~ignore_nesting =>
        \A j \in 1..Len(events) :
            LET m == Matcher(LineOfEvent(j))
            IN  ~IsNone(m.frame) =>
                    events[j].nesting =
                        Some(ParseInt(Val(m.frame)).val
                             + (IF BranchContinuation(m.code) THEN 1 ELSE 0))

\* the node created last, the sentinel when there is none, and the nodes above
\* it up to the sentinel
RECURSIVE Outward(_)
Outward(n) == IF n = Root THEN <<Root>> ELSE <<n>> \o Outward(nodes[n].parent_trace)

\* the event the next new node is made for, and whether its depth is unknown
Attached == events[Len(nodes)]

AttachesUnknown == nodes' # nodes /\ IsNone(Attached.nesting)

\* the positions on the walk of the frames in the file of the attached event
SameFile(chain) ==
    {k \in 1..Len(chain) :
        /\ chain[k] # Root
        /\ Val(nodes[chain[k]].trace_info).cmake_file = Attached.trace_info.cmake_file}

LineDistance(n) ==
    Abs(Val(nodes[n].trace_info).cmake_line - Attached.trace_info.cmake_line)

\* the parent the claim gives the new node
NearestFrameParent ==
    LET chain == Outward(Len(nodes))
        same == SameFile(chain)
        winner == CHOOSE k \in same :
                      \A i \in same :
                          \/ LineDistance(chain[k]) < LineDistance(chain[i])
                          \/ LineDistance(chain[k]) = LineDistance(chain[i]) /\ k <= i
    IN  IF same = {} THEN chain[1] ELSE nodes[chain[winner]].parent_trace

\* C16: the node of an event of unknown depth becomes a child of the parent of
\* the frame nearest in line number among the frames in the event's file on
\* the walk from the node created last to the sentinel, the first met of
\* equally near ones; and of the node created last (the sentinel in an empty
\* tree) when no frame is in that file.
C16_NearestFrame ==
    [][AttachesUnknown => nodes'[Len(nodes')].parent_trace = NearestFrameParent]_vars

\* an event of unknown depth at line 2 was attached while the frames of lines
\* 3 and 1 of its file were on the walk: it is a child of the parent of the
\* frame of line 3; and another one was attached to the node created last
C16_Witness ==
    /\ ~ignore_nesting
    /\ Len(nodes) >= 5
    /\ Val(nodes[2].trace_info).cmake_line = 1
    /\ Val(nodes[3].trace_info).cmake_line = 3
    /\ nodes[3].parent_trace = 2
    /\ IsNone(events[3].nesting)
    /\ events[3].trace_info.cmake_file = <<"a">>
    /\ events[3].trace_info.cmake_line = 2
    /\ nodes[4].parent_trace = 2
    /\ IsNone(events[4].nesting)
    /\ events[4].trace_info.cmake_file = <<"b">>
    /\ nodes[5].parent_trace = 4

\* the nodes that meet the threshold and the maximum depth
Passing == {n \in TraceNodes : MeetsThreshold(n) /\ WithinDepth(n)}

\* the place of node n in the report
PlaceOf(n) == CHOOSE k \in 1..Len(stdout) : stdout[k] = ReportLine(n)

\* the report is the set of the passing nodes, each once, of two siblings the
\* one of larger duration first and of two of equal duration the one inserted
\* first
SortedFilter ==
    /\ {stdout[k] : k \in 1..Len(stdout)} = {ReportLine(n) : n \in Passing}
    /\ Len(stdout) = Cardinality(Passing)
    /\ \A n \in Passing : \A m \in Passing :
          /\ nodes[n].parent_trace = nodes[m].parent_trace
          /\ \/ nodes[n].duration > nodes[m].duration
             \/ nodes[n].duration = nodes[m].duration /\ n < m
          => PlaceOf(n) < PlaceOf(m)

\* C17 (as claimed): with sorting and without single path mode the report of
\* a forest that the run built holds exactly the nodes whose cumulative
\* duration divided by the whole duration is at least the threshold and whose depth is within the
\* maximum depth, each once, whatever their siblings and ancestors are; and of
\* two rendered siblings the one of larger duration comes first, of two of
\* equal duration the one inserted first.
C17_SortedIsFilter ==
    Rendered /\ args.sort_traces /\ ~args.one => SortedFilter

\* the same at the natural width, which is where it holds
SortedIsFilterNaturalWidth ==
    Rendered /\ NaturalWidth /\ args.sort_traces /\ ~args.one => SortedFilter

\* the members of a sequence
Range(s) == {s[k] : k \in 1..Len(s)}

\* C18: every node of an event is a child of the node created just before it,
\* of an ancestor of that node or of the sentinel, and the node created last
\* is the last child of its parent; so the nodes reached from the top level
\* list, parents before children and children in insertion order, are the
\* nodes of the events in the order of the events.
C18_RightmostPath ==
    /\ \A n \in TraceNodes :
          nodes[n].parent_trace \in (IF n = NodeOf(1) THEN {Root} ELSE Range(Outward(n - 1)))
    /\ Len(nodes) > 1 => Last(nodes[nodes[Len(nodes)].parent_trace].subtraces) = Len(nodes)
    /\ Preorder(all_traces) = EventOrder

\* a forest of four events, with and without depth, in which a node is a child
\* of the node before it, another one a child of a node further up, and
\* another one top level
C18_Witness ==
    /\ Collected
    /\ Len(nodes) = 5
    /\ \E j \in 1..Len(events) : IsNone(events[j].nesting)
    /\ \E j \in 1..Len(events) : ~IsNone(events[j].nesting)
    /\ \E n \in TraceNodes : nodes[n].parent_trace = n - 1
    /\ \E n \in TraceNodes : nodes[n].parent_trace \notin {Root, n - 1}
    /\ Len(all_traces) >= 2

\* the nesting is ignored, or no line read so far carries a nesting field
DepthUnknownMode ==
    \/ ignore_nesting
    \/ \A k \in ParseableLines : IsNone(Matcher(RStrip(consumed[k])).frame)

\* C19: while the depth of every event is unknown no step raises an
\* exception: every node has a parent that was there before it, the run is
\* never in the error state, and at the end of the stream every event has its
\* node in the forest.
C19_UnknownModeCompletes ==
    DepthUnknownMode =>
        /\ exc \notin {"AssertionError", "IndexError"} /\ pc # "error"
        /\ \A n \in TraceNodes : nodes[n].parent_trace \in 1..(n - 1)
        /\ Collected =>
              /\ Len(events) = Cardinality(ParseableLines)
              /\ Preorder(all_traces) = [j \in 1..Len(events) |-> NodeOf(j)]

\* a run with the nesting ignored over four lines, the first of depth 3 and
\* another of depth 2, that printed its report
C19_Witness ==
    /\ ignore_nesting
    /\ pc = "done" /\ ~report_only
    /\ Len(consumed) = 4
    /\ Matcher(consumed[1]).frame = Some(<<"3">>)
    /\ \E k \in 2..4 : Matcher(consumed[k]).frame = Some(<<"2">>)
    /\ \E n \in TraceNodes : Level(n) >= 2
    /\ Len(stdout) = 4

\* C20 (as claimed): after a trace with at least one event was collected to
\* the end of the stream the whole duration is above 0, and no run ends with
\* a division by zero in the report.
C20_WholeDurationPositive ==
    /\ Collected /\ Len(events) >= 1 => SumDuration(forest) > 0
    /\ exc # "ZeroDivisionError"

=============================================================================
